---- MODULE Spec2Model ----
(***************************************************************************)
(* Model of quantizer_app.py: the quantization kernel                      *)
(* compute_quantized_value and the QuantizerApp handlers that call it      *)
(* (_update_quantization_plot, _quantize, _clear_inputs).                  *)
(*                                                                         *)
(* Python floats are binary floating-point numbers: every arithmetic       *)
(* operation returns the exact result rounded to the nearest representable *)
(* number, ties to even.  The model keeps that behaviour and scales the    *)
(* width of the significand down from 53 bits to Precision bits and the    *)
(* largest exponent from 1024 to MaxExponent.  A finite float is held as a *)
(* reduced fraction [num, den] with den > 0; the infinities are 1/0 and    *)
(* -1/0, and 0/0 is nan.                                                   *)
(***************************************************************************)
EXTENDS Integers, Sequences, FiniteSets, TLC

\* ------------------------------------------------------------------------
\* Bounds of the model
\* ------------------------------------------------------------------------
\* Bits of significand of a float (53 for a Python float).
Precision == 4

\* A float operation whose rounded result has magnitude 2^MaxExponent or
\* more overflows to infinity (2^1024 for a Python float).
MaxExponent == 10

\* Number of points of the sampled sine wave: the num of
\* np.linspace(0, 2 * np.pi, 200), scaled down.
NumSamples == 4

\* ------------------------------------------------------------------------
\* Exact fractions
\* ------------------------------------------------------------------------
Abs(x) == IF x < 0 THEN -x ELSE x

RECURSIVE GCD(_, _)
GCD(a, b) == IF b = 0 THEN a ELSE GCD(b, a % b)

\* The reduced fraction n/d, d # 0.
Rat(n, d) ==
    LET g == GCD(Abs(n), Abs(d))
        s == IF d < 0 THEN -1 ELSE 1
    IN  [num |-> (s * n) \div g, den |-> (s * d) \div g]

FromInt(i) == [num |-> i, den |-> 1]

RAdd(a, b) == Rat(a.num * b.den + b.num * a.den, a.den * b.den)
RSub(a, b) == Rat(a.num * b.den - b.num * a.den, a.den * b.den)
RMul(a, b) == Rat(a.num * b.num, a.den * b.den)
RDiv(a, b) == Rat(a.num * b.den, a.den * b.num)
RNeg(a) == [num |-> -a.num, den |-> a.den]
RAbs(a) == [num |-> Abs(a.num), den |-> a.den]
RLe(a, b) == a.num * b.den <= b.num * a.den
RLt(a, b) == a.num * b.den < b.num * a.den

\* ------------------------------------------------------------------------
\* Python numbers
\* ------------------------------------------------------------------------
\* round(x) of a float: the nearest integer, a tie going to the even one.
round(x) ==
    LET f == x.num \div x.den
        r == x.num - f * x.den
    IN  IF 2 * r < x.den THEN f
        ELSE IF 2 * r > x.den THEN f + 1
        ELSE IF f % 2 = 0 THEN f ELSE f + 1

\* The positive fraction n / d, scaled by 2^-e until its integer part has
\* exactly Precision bits, then rounded to an integer significand m: the
\* float m * 2^e.
RECURSIVE RoundSignificand(_, _, _)
RoundSignificand(n, d, e) ==
    IF n >= (2 ^ Precision) * d THEN RoundSignificand(n, 2 * d, e + 1)
    ELSE IF n < (2 ^ (Precision - 1)) * d THEN RoundSignificand(2 * n, d, e - 1)
    ELSE LET m == round([num |-> n, den |-> d])
         IN  IF e >= 0 THEN FromInt(m * (2 ^ e)) ELSE Rat(m, 2 ^ (-e))

\* The floats that are not numbers of the line: inf, -inf and nan.
Inf == [num |-> 1, den |-> 0]
NegInf == [num |-> -1, den |-> 0]
NaN == [num |-> 0, den |-> 0]
IsFinite(x) == x.den # 0
Sign(x) == IF x.num > 0 THEN 1 ELSE IF x.num < 0 THEN -1 ELSE 0
Signed(s) == IF s > 0 THEN Inf ELSE IF s < 0 THEN NegInf ELSE NaN

\* The float nearest to the exact value x (round to nearest, ties to even),
\* infinite when that float would need an exponent above the largest one.
Float(x) ==
    IF x.num = 0 THEN x
    ELSE LET r == RoundSignificand(Abs(x.num), x.den, 0)
         IN  IF r.num >= (2 ^ MaxExponent) * r.den THEN Signed(x.num)
             ELSE IF x.num < 0 THEN RNeg(r) ELSE r

\* The float operators  a + b,  a - b,  a * b,  a / b  (b # 0).
FAdd(a, b) ==
    IF IsFinite(a) /\ IsFinite(b) THEN Float(RAdd(a, b))
    ELSE IF a = NaN \/ b = NaN THEN NaN
    ELSE IF IsFinite(a) THEN b
    ELSE IF IsFinite(b) \/ a = b THEN a
    ELSE NaN
FSub(a, b) ==
    IF IsFinite(a) /\ IsFinite(b) THEN Float(RSub(a, b))
    ELSE FAdd(a, RNeg(b))
FMul(a, b) ==
    IF IsFinite(a) /\ IsFinite(b) THEN Float(RMul(a, b))
    ELSE Signed(Sign(a) * Sign(b))
FDiv(a, b) ==
    IF IsFinite(a) /\ IsFinite(b) THEN Float(RDiv(a, b))
    ELSE IF IsFinite(b) THEN Signed(Sign(a) * Sign(b))
    ELSE IF IsFinite(a) /\ b # NaN THEN FromInt(0)
    ELSE NaN

\* An int operand of a float operator is converted to float first.
IntToFloat(i) == Float(FromInt(i))

Max(a, b) == IF a >= b THEN a ELSE b
Min(a, b) == IF a <= b THEN a ELSE b

\* "No value": what a call that raised returns, an empty output.
NaV == NaN

\* ------------------------------------------------------------------------
\* compute_quantized_value
\* ------------------------------------------------------------------------
\* 2**bit_rate
num_quantization_levels(bit_rate) == 2 ^ bit_rate

\* (max_range - min_range) / (num_quantization_levels - 1)
step_size(max_range, min_range, levels) ==
    FDiv(FSub(max_range, min_range), IntToFloat(levels - 1))

\* (analog_voltage - min_range) / (max_range - min_range)
normalized_voltage(max_range, min_range, analog_voltage) ==
    FDiv(FSub(analog_voltage, min_range), FSub(max_range, min_range))

\* max(0, min(int(index), num_quantization_levels - 1))
clamp_index(index, levels) == Max(0, Min(index, levels - 1))

\* normalized_voltage * (num_quantization_levels - 1)
scaled_voltage(normalized, levels) == FMul(normalized, IntToFloat(levels - 1))

\* What round(x) raises for a float that is no number of the line.
OverflowError == "cannot convert float infinity to integer"
round_raises(x) ==
    IF x = NaN THEN "cannot convert float NaN to integer"
    ELSE IF ~IsFinite(x) THEN OverflowError
    ELSE ""

\* round(normalized_voltage * (num_quantization_levels - 1)), then clamped
quantized_level_index(scaled, levels) == clamp_index(round(scaled), levels)

\* min_range + (quantized_level_index * step_size)
level_voltage(min_range, index, step) ==
    FAdd(min_range, FMul(IntToFloat(index), step))

\* What a call does: it returns a value or raises an exception with the
\* message raised: an OverflowError when the message is OverflowError, a
\* ValueError otherwise.
Return(v) == [raised |-> "", value |-> v]
Raise(e) == [raised |-> e, value |-> NaV]

\* Lines 41 to 48 on the scaled voltage: round raises, or the voltage of the
\* clamped index is returned.
quantized_voltage(min_range, scaled, levels, step) ==
    IF round_raises(scaled) # "" THEN Raise(round_raises(scaled))
    ELSE Return(level_voltage(min_range, quantized_level_index(scaled, levels), step))

\* Mutant: the bit rate is tested before the range.
compute_quantized_value_bit_rate_first(max_range, min_range, bit_rate, analog_voltage) ==
    IF bit_rate <= 0 THEN Raise("Bit Rate must be a positive integer.")
    ELSE IF RLe(max_range, min_range) THEN Return(min_range)
    ELSE LET levels == num_quantization_levels(bit_rate)
         IN  quantized_voltage(
                 min_range,
                 scaled_voltage(
                     normalized_voltage(max_range, min_range, analog_voltage),
                     levels),
                 levels,
                 step_size(max_range, min_range, levels))

compute_quantized_value(max_range, min_range, bit_rate, analog_voltage) ==
    IF RLe(max_range, min_range) THEN Return(min_range)
    ELSE IF bit_rate <= 0 THEN Raise("Bit Rate must be a positive integer.")
    ELSE LET levels == num_quantization_levels(bit_rate)
         IN  IF levels <= 1 THEN Return(min_range)
             ELSE quantized_voltage(
                     min_range,
                     scaled_voltage(
                         normalized_voltage(max_range, min_range, analog_voltage),
                         levels),
                     levels,
                     step_size(max_range, min_range, levels))

\* ------------------------------------------------------------------------
\* Direct calls of compute_quantized_value
\* ------------------------------------------------------------------------
\* Largest number of calls made with one configuration.
MaxCalls == 2

F(n, d) == Rat(n, d)

\* Range bounds, bit rates and voltages the calls are made with.
RangeValues == {F(-10, 1), F(-6, 1), F(-4, 1), F(-3, 1), F(-3, 2), F(-3, 4),
                F(10, 1)}
BitRates == {-1, 0, 1, 2, 3}
\* A voltage in the top binade of the floats.
HugeVoltage == FromInt(2 ^ (MaxExponent - 1))
Voltages == {F(-12, 1), F(-10, 1), F(-4, 1), F(-9, 4), F(-9, 8), F(-1, 1),
             F(-3, 4), F(0, 1), F(5, 1), F(10, 1), F(12, 1), HugeVoltage}

VARIABLES
    args,      \* max_range, min_range, bit_rate of the calls
    calls      \* the calls made so far: analog_voltage and what came back

qvars == <<args, calls>>

QInit ==
    /\ args \in [max_range : RangeValues, min_range : RangeValues,
                 bit_rate : BitRates]
    /\ calls = <<>>

Quantized(v) ==
    compute_quantized_value(args.max_range, args.min_range, args.bit_rate, v)

\* compute_quantized_value(max_range, min_range, bit_rate, v)
Call(v) ==
    /\ Len(calls) < MaxCalls
    /\ calls' = Append(calls, [analog_voltage |-> v, result |-> Quantized(v)])
    /\ UNCHANGED args

\* compute_quantized_value applied to the value the last call returned
CallOnResult ==
    /\ Len(calls) >= 1
    /\ calls[Len(calls)].result.raised = ""
    /\ Call(calls[Len(calls)].result.value)

QNext ==
    \/ \E v \in Voltages : Call(v)
    \/ CallOnResult


\* ------------------------------------------------------------------------
\* QuantizerApp
\* ------------------------------------------------------------------------
\* The input fields, in the order of input_specs (the order of field_vars).
Fields == <<"Maximum Range", "Minimum Range", "Bit Rate", "Analog Voltage">>

\* The text of an entry that is not a number: get() of its variable raises
\* TclError.  A readable field holds a number; the Bit Rate one an integer.
Unreadable == NaV
Readable(x) == x # Unreadable

\* f"{quantized_val:.4f} V": the value in ten-thousandths of a volt.
Format4(x) == round(RMul(x, FromInt(10000)))
OutputNA == [text |-> "N/A", value |-> 0]
OutputError == [text |-> "Error", value |-> 0]
OutputValue(x) == [text |-> "V", value |-> Format4(x)]

\* What the user types into the entries.
RangeTexts == {F(-10, 1), F(5, 1), F(10, 1)}
BitRateTexts == {F(0, 1), F(1, 1), F(8, 1), Unreadable}
VoltageTexts == {F(-12, 1), F(5, 1), F(12, 1), Unreadable}
Texts(field) ==
    CASE field = "Bit Rate" -> BitRateTexts
      [] field = "Analog Voltage" -> VoltageTexts
      [] OTHER -> RangeTexts

\* ax.clear(): nothing is drawn.
EmptyAxes ==
    [text |-> "", time |-> <<>>, analog_signal |-> <<>>,
     quantization_levels |-> <<>>, quantized_signal |-> <<>>,
     current_input |-> <<>>]

\* Mutant: np.linspace(0, 2 * np.pi, NumSamples, endpoint=False).
time_endpoint_excluded ==
    [i \in 1 .. NumSamples |-> Rat(2 * (i - 1), NumSamples)]

\* time = np.linspace(0, 2 * np.pi, NumSamples), in units of pi: NumSamples
\* points from 0 to 2, time[i] = 2(i-1)/(NumSamples-1), i from 1.
time == [i \in 1 .. NumSamples |-> Rat(2 * (i - 1), NumSamples - 1)]

\* np.sin(time)[i].  The sine of a half turn u * pi, 0 <= u <= 1, is taken as
\* 16u(1-u) / (5 - 4u(1-u)).
HalfTurnSine(u) ==
    LET w == RMul(u, RSub(FromInt(1), u))
    IN  RDiv(RMul(FromInt(16), w), RSub(FromInt(5), RMul(FromInt(4), w)))

np_sin_time ==
    [i \in DOMAIN time |->
        LET u == time[i]
        IN  IF RLe(u, FromInt(1)) THEN Float(HalfTurnSine(u))
            ELSE RNeg(Float(HalfTurnSine(RSub(u, FromInt(1)))))]

\* np.sin(time) * ((max_r - min_r) / 2) + (max_r + min_r) / 2
analog_signal(max_r, min_r) ==
    [i \in DOMAIN np_sin_time |->
        FAdd(FMul(np_sin_time[i], FDiv(FSub(max_r, min_r), FromInt(2))),
             FDiv(FAdd(max_r, min_r), FromInt(2)))]

\* Mutant: the loop stops one sample early.
RECURSIVE quantize_signal_short(_, _, _, _, _)
quantize_signal_short(max_r, min_r, bit_r, signal, quantized_signal) ==
    IF Len(signal) <= 1 THEN quantized_signal
    ELSE quantize_signal_short(max_r, min_r, bit_r, Tail(signal),
            Append(quantized_signal,
                   compute_quantized_value(max_r, min_r, bit_r, Head(signal)).value))

\* The loop appending compute_quantized_value(max_r, min_r, bit_r, val) for
\* every val of the signal.
RECURSIVE quantize_signal(_, _, _, _, _)
quantize_signal(max_r, min_r, bit_r, signal, quantized_signal) ==
    IF signal = <<>> THEN quantized_signal
    ELSE quantize_signal(max_r, min_r, bit_r, Tail(signal),
            Append(quantized_signal,
                   compute_quantized_value(max_r, min_r, bit_r, Head(signal)).value))

\* bit_r = max(1, bit_r)
plot_bit_rate(bit_r) == Max(1, bit_r)

\* np.linspace(start, stop, num), num >= 2: entry k (from 0) is
\* k * step + start with step = (stop - start) / (num - 1), and the last
\* entry is stop itself.
np_linspace(start, stop, num) ==
    [k \in 1 .. num |->
        IF k = num THEN stop
        ELSE FAdd(FMul(IntToFloat(k - 1),
                       FDiv(FSub(stop, start), IntToFloat(num - 1))),
                  start)]

\* The levels drawn for max_r, min_r and bit_r: [min_r] for one level,
\* else np.linspace(min_r, max_r, num_levels).
quantization_levels(max_r, min_r, bit_r) ==
    IF num_quantization_levels(bit_r) = 1 THEN <<min_r>>
    ELSE np_linspace(min_r, max_r, num_quantization_levels(bit_r))

\* The signal, the quantized_signal list built from it and what building it
\* raises, if anything.
sampled_waves(max_r, min_r, bit_r, signal) ==
    [analog_signal |-> signal,
     raised |-> compute_quantized_value(max_r, min_r, bit_r, signal[1]).raised,
     quantized_signal |-> quantize_signal(max_r, min_r, bit_r, signal, <<>>)]

\* sampled_waves of analog_signal.
computed_waves(max_r, min_r, bit_r) ==
    sampled_waves(max_r, min_r, bit_r, analog_signal(max_r, min_r))

\* The waves of the ranges and bit rates the user gives, each computed once.
WaveTexts ==
    RangeTexts \X RangeTexts \X
        {plot_bit_rate(b.num) : b \in BitRateTexts \ {Unreadable}}

WavesOfTexts == [given \in WaveTexts |-> computed_waves(given[1], given[2], given[3])]

\* The waves drawn: those of the range and bit rate the variables hold.
drawn_waves(max_r, min_r, bit_r) ==
    WavesOfTexts[<<max_r, min_r, bit_r>>]

\* The part of _update_quantization_plot that draws: the sine wave, the
\* levels (kept as the arguments of np.linspace, their values being those
\* of quantization_levels), the quantized wave and, when the voltage read
\* at the start lies in the range, its marker.  An exception of
\* compute_quantized_value ends the drawing with a message.
draw_signal(ax, max_r, min_r, bit_r, analog_v_single_point, waves) ==
    LET signal == waves.analog_signal
        marked == RLe(min_r, analog_v_single_point) /\ RLe(analog_v_single_point, max_r)
        levels == [ax EXCEPT
            !.time = Append(@, time),
            !.analog_signal = Append(@, signal),
            !.quantization_levels =
                Append(@, [start |-> min_r, stop |-> max_r,
                           num |-> num_quantization_levels(bit_r)])]
        raised == waves.raised
    IN  IF raised = OverflowError THEN [levels EXCEPT !.text = "Plot Error"]
        ELSE IF raised # "" THEN [levels EXCEPT !.text = "Invalid Numerical Input"]
        ELSE [levels EXCEPT
            !.quantized_signal =
                Append(@, waves.quantized_signal),
            !.current_input =
                IF marked
                THEN Append(@, [input |-> analog_v_single_point,
                                output |-> compute_quantized_value(
                                    max_r, min_r, bit_r, analog_v_single_point).value])
                ELSE @]

\* draw_signal of the sampled sine wave and its quantized wave.
draw_plot(ax, max_r, min_r, bit_r, analog_v_single_point) ==
    draw_signal(ax, max_r, min_r, bit_r, analog_v_single_point,
                drawn_waves(max_r, min_r, bit_r))

\* Mutant: a voltage above the range is left where it is.
snap_value_below_only(max_r, min_r, current_analog_v) ==
    IF RLt(current_analog_v, min_r) THEN min_r ELSE current_analog_v

\* Mutant: a voltage above the range is set below it.
snap_value_overshooting(max_r, min_r, current_analog_v) ==
    IF RLt(current_analog_v, min_r) THEN min_r
    ELSE IF RLt(max_r, current_analog_v) THEN FSub(min_r, FromInt(1))
    ELSE current_analog_v

\* Mutant: the voltage is set to min_r whatever it is.
snap_value_always_min(max_r, min_r, current_analog_v) == min_r

\* What the Analog Voltage variable is to hold: min_r for a voltage below
\* the range, max_r for one above it, else the voltage it holds.
snap_value(max_r, min_r, current_analog_v) ==
    IF RLt(current_analog_v, min_r) THEN min_r
    ELSE IF RLt(max_r, current_analog_v) THEN max_r
    ELSE current_analog_v

\* Mutant: only max_r < min_r is taken as an invalid range.
plot_range_invalid_strict(max_r, min_r) == RLt(max_r, min_r)

\* if max_r <= min_r: the range the redraw refuses to draw.
plot_range_invalid(max_r, min_r) == RLe(max_r, min_r)

\* _update_quantization_plot on the application state app.  Writing the
\* Analog Voltage variable runs the variable's trace, which is
\* _update_quantization_plot again, before the write returns.
\* plot_updates counts the runs since the handler began.
RECURSIVE update_quantization_plot(_)
update_quantization_plot(app) ==
    LET cleared == [app EXCEPT !.ax = EmptyAxes, !.plot_updates = @ + 1]
        max_r == app.field_vars["Maximum Range"]
        min_r == app.field_vars["Minimum Range"]
        bit_r == app.field_vars["Bit Rate"]
        analog_v == app.field_vars["Analog Voltage"]
    IN  IF \E f \in DOMAIN app.field_vars : ~Readable(app.field_vars[f])
        THEN [cleared EXCEPT !.ax.text = "Plot Error"]
        ELSE IF plot_range_invalid(max_r, min_r)
        THEN [cleared EXCEPT !.ax.text = "Error: Max Range must be > Min Range"]
        ELSE LET ranged == [cleared EXCEPT
                               !.slider_fields = [from_ |-> min_r, to |-> max_r]]
                 snapped ==
                     IF snap_value(max_r, min_r, analog_v) # analog_v
                     THEN update_quantization_plot(
                              [ranged EXCEPT !.field_vars["Analog Voltage"] =
                                  snap_value(max_r, min_r, analog_v)])
                     ELSE ranged
             IN  [snapped EXCEPT
                     !.ax = draw_plot(@, max_r, min_r, plot_bit_rate(bit_r.num),
                                      analog_v)]

\* last_calculated_params: None, or the values of the last _quantize that
\* passed its checks.
NoParams == <<>>

\* Mutant: the bounds of the range are stored in each other's place.
Params_bounds_swapped(max_r, min_r, bit_r, analog_v) ==
    <<[max_range |-> min_r, min_range |-> max_r, bit_rate |-> bit_r,
       analog_voltage |-> analog_v]>>

Params(max_r, min_r, bit_r, analog_v) ==
    <<[max_range |-> max_r, min_range |-> min_r, bit_rate |-> bit_r,
       analog_voltage |-> analog_v]>>

\* Mutant: the write fires no trace.
write_var_untraced(app, field, value) == [app EXCEPT !.field_vars[field] = value]

\* Mutant: the trace runs before the variable holds the value.
write_var_trace_first(app, field, value) ==
    [update_quantization_plot(app) EXCEPT !.field_vars[field] = value]

\* Mutant: a write drops the values of the last _quantize.
write_var_forgetting(app, field, value) ==
    update_quantization_plot(
        [app EXCEPT !.field_vars[field] = value, !.last_calculated_params = NoParams])

\* var.set(value): the write and the trace it fires.
write_var(app, field, value) ==
    update_quantization_plot([app EXCEPT !.field_vars[field] = value])

\* Mutant: the range is tested before the bit rate.
quantize_checks_range_first(max_r, min_r, bit_r) ==
    IF RLe(max_r, min_r)
    THEN "Maximum Range must be greater than Minimum Range."
    ELSE IF bit_r <= 0 THEN "Bit Rate must be a positive integer."
    ELSE ""

\* Mutant: the range is not tested.
quantize_checks_bit_rate_only(max_r, min_r, bit_r) ==
    IF bit_r <= 0 THEN "Bit Rate must be a positive integer." ELSE ""

\* The checks of _quantize on the values it read: what is raised, if
\* anything.
quantize_checks(max_r, min_r, bit_r) ==
    IF bit_r <= 0 THEN "Bit Rate must be a positive integer."
    ELSE IF RLe(max_r, min_r)
    THEN "Maximum Range must be greater than Minimum Range."
    ELSE ""

\* if not (min_r <= analog_v <= max_r): messagebox.showwarning(...)
input_warning(max_r, min_r, analog_v) ==
    IF RLe(min_r, analog_v) /\ RLe(analog_v, max_r) THEN <<>>
    ELSE <<[kind |-> "showwarning", title |-> "Input Warning",
            detail |-> "outside the specified range"]>>

\* _quantize
quantize(app) ==
    LET max_r == app.field_vars["Maximum Range"]
        min_r == app.field_vars["Minimum Range"]
        bit_r == app.field_vars["Bit Rate"].num
        analog_v == app.field_vars["Analog Voltage"]
        failed(title, detail, output) ==
            update_quantization_plot(
                [app EXCEPT
                    !.messagebox = <<[kind |-> "showerror", title |-> title,
                                      detail |-> detail]>>,
                    !.output_value_text = output,
                    !.last_calculated_params = NoParams])
    IN  IF \E f \in DOMAIN app.field_vars : ~Readable(app.field_vars[f])
        THEN failed("Calculation Error", "TclError", OutputError)
        ELSE IF quantize_checks(max_r, min_r, bit_r) # ""
        THEN failed("Input Error", quantize_checks(max_r, min_r, bit_r), OutputNA)
        ELSE LET quantized == compute_quantized_value(max_r, min_r, bit_r, analog_v)
             IN  IF quantized.raised = OverflowError
                 THEN failed("Calculation Error", OverflowError, OutputError)
                 ELSE IF quantized.raised # ""
                 THEN failed("Input Error", quantized.raised, OutputNA)
                 ELSE update_quantization_plot(
                        [app EXCEPT
                            !.last_calculated_params =
                                Params(max_r, min_r, bit_r, analog_v),
                            !.output_value_text = OutputValue(quantized.value),
                            !.messagebox = input_warning(max_r, min_r, analog_v)])

\* The default of each field: input_specs, and again in _clear_inputs.
DefaultValue(field) ==
    CASE field = "Maximum Range" -> FromInt(10)
      [] field = "Minimum Range" -> FromInt(-10)
      [] field = "Bit Rate" -> FromInt(8)
      [] field = "Analog Voltage" -> FromInt(5)

\* Mutant: the last field is left as it is.
RECURSIVE set_defaults_short(_, _)
set_defaults_short(app, fields) ==
    IF Len(fields) <= 1 THEN app
    ELSE set_defaults_short(
             write_var(app, Head(fields), DefaultValue(Head(fields))),
             Tail(fields))

\* The loop of _clear_inputs writing its default to every field.
RECURSIVE set_defaults(_, _)
set_defaults(app, fields) ==
    IF fields = <<>> THEN app
    ELSE set_defaults(write_var(app, Head(fields), DefaultValue(Head(fields))),
                      Tail(fields))

\* Mutant: the values of the last _quantize are kept.
clear_inputs_keeping_params(app) ==
    update_quantization_plot(
        [set_defaults(app, Fields) EXCEPT !.output_value_text = OutputNA])

\* _clear_inputs
clear_inputs(app) ==
    update_quantization_plot(
        [set_defaults(app, Fields) EXCEPT
            !.output_value_text = OutputNA,
            !.last_calculated_params = NoParams])

\* The application once __init__ has returned.
Constructed ==
    update_quantization_plot(
        [field_vars |-> [f \in {Fields[i] : i \in DOMAIN Fields} |-> DefaultValue(f)],
         slider_fields |-> [from_ |-> FromInt(-20), to |-> FromInt(20)],
         ax |-> EmptyAxes,
         output_value_text |-> OutputNA,
         last_calculated_params |-> NoParams,
         messagebox |-> <<>>,
         plot_updates |-> 0])

VARIABLES
    field_vars,              \* the Tk variable of each input field
    slider_fields,           \* from_ and to of the Analog Voltage slider
    ax,                      \* what is drawn on the axes
    output_value_text,       \* the output label
    last_calculated_params,  \* the values of the last successful _quantize
    messagebox,              \* the dialogs the last handler showed
    plot_updates,            \* the runs of _update_quantization_plot in it
    event                    \* the handler that ran last

appvars == <<field_vars, slider_fields, ax, output_value_text,
             last_calculated_params, messagebox, plot_updates, event>>
vars == <<appvars, qvars>>

App ==
    [field_vars |-> field_vars, slider_fields |-> slider_fields, ax |-> ax,
     output_value_text |-> output_value_text,
     last_calculated_params |-> last_calculated_params,
     messagebox |-> messagebox, plot_updates |-> plot_updates]

\* The application as a handler finds it: no dialog shown and no redraw run
\* by it yet.
Entered == [App EXCEPT !.messagebox = <<>>, !.plot_updates = 0]

Becomes(app, name) ==
    /\ field_vars' = app.field_vars
    /\ slider_fields' = app.slider_fields
    /\ ax' = app.ax
    /\ output_value_text' = app.output_value_text
    /\ last_calculated_params' = app.last_calculated_params
    /\ messagebox' = app.messagebox
    /\ plot_updates' = app.plot_updates
    /\ event' = name

AppInit ==
    /\ field_vars = Constructed.field_vars
    /\ slider_fields = Constructed.slider_fields
    /\ ax = Constructed.ax
    /\ output_value_text = Constructed.output_value_text
    /\ last_calculated_params = Constructed.last_calculated_params
    /\ messagebox = Constructed.messagebox
    /\ plot_updates = Constructed.plot_updates
    /\ event = "__init__"

\* The user types text into the entry of a field (or has the + and -
\* buttons write it): the variable is written.
Edit(field, text) ==
    /\ text # field_vars[field]
    /\ Becomes(write_var(Entered, field, text), "edit")

\* Where the user can drag the slider of a field: between -20 and 20, and
\* between the from_ and to last configured for the Analog Voltage one.
SlideValues(field) ==
    IF field = "Analog Voltage"
    THEN {value \in {F(-12, 1), F(5, 1), F(12, 1),
                     slider_fields.from_, slider_fields.to} :
             RLe(slider_fields.from_, value) /\ RLe(value, slider_fields.to)}
    ELSE {value \in RangeTexts : RLe(FromInt(-20), value) /\ RLe(value, FromInt(20))}

\* The user drags the slider of a field: the scale writes the variable, then
\* calls its command, _update_quantization_plot_from_var.
Slide(field, value) ==
    /\ field # "Bit Rate"
    /\ value # field_vars[field]
    /\ Becomes(update_quantization_plot(write_var(Entered, field, value)), "slide")

\* The Quantize button.
Quantize == Becomes(quantize(Entered), "_quantize")

\* The Clear button.
Clear == Becomes(clear_inputs(Entered), "_clear_inputs")

\* ------------------------------------------------------------------------
\* Specifications
\* ------------------------------------------------------------------------
\* The application: the user edits fields and presses buttons.
Init ==
    /\ AppInit
    /\ args = [max_range |-> FromInt(10), min_range |-> FromInt(-10), bit_rate |-> 8]
    /\ calls = <<>>

Next ==
    \/ \E i \in DOMAIN Fields : \E text \in Texts(Fields[i]) :
           Edit(Fields[i], text) /\ UNCHANGED qvars
    \/ \E i \in DOMAIN Fields : \E value \in SlideValues(Fields[i]) :
           Slide(Fields[i], value) /\ UNCHANGED qvars
    \/ Quantize /\ UNCHANGED qvars
    \/ Clear /\ UNCHANGED qvars

Spec == Init /\ [][Next]_vars

\* Direct calls of compute_quantized_value, no application running.
InitQuantizer == QInit /\ AppInit

NextQuantizer ==
    \/ \E v \in Voltages : Call(v) /\ UNCHANGED appvars
    \/ CallOnResult /\ UNCHANGED appvars

SpecQuantizer == InitQuantizer /\ [][NextQuantizer]_vars

\* _quantize on the values it can read from the four variables, whatever
\* wrote them: the voltage outside the range included.
InitCompute ==
    /\ \E max_r \in RangeTexts, min_r \in RangeTexts :
       \E bit_r \in BitRateTexts, analog_v \in VoltageTexts \cup {HugeVoltage} :
           field_vars = [f \in {Fields[i] : i \in DOMAIN Fields} |->
               CASE f = "Maximum Range" -> max_r
                 [] f = "Minimum Range" -> min_r
                 [] f = "Bit Rate" -> bit_r
                 [] f = "Analog Voltage" -> analog_v]
    /\ slider_fields = Constructed.slider_fields
    /\ ax = EmptyAxes
    /\ output_value_text = OutputNA
    /\ last_calculated_params = NoParams
    /\ messagebox = <<>>
    /\ plot_updates = 0
    /\ event = "__init__"
    /\ args = [max_range |-> FromInt(10), min_range |-> FromInt(-10), bit_rate |-> 8]
    /\ calls = <<>>

NextCompute == Quantize /\ UNCHANGED qvars

SpecCompute == InitCompute /\ [][NextCompute]_vars

\* ------------------------------------------------------------------------
\* Properties of the direct calls
\* ------------------------------------------------------------------------
ValidConfig == RLt(args.min_range, args.max_range) /\ args.bit_rate >= 1
Levels == num_quantization_levels(args.bit_rate)
\* The voltage of level k, as compute_quantized_value computes it.
Level(k) ==
    level_voltage(args.min_range, k,
                  step_size(args.max_range, args.min_range, Levels))
InRange(v) == RLe(args.min_range, v) /\ RLe(v, args.max_range)
Distance(a, b) == RAbs(RSub(a, b))
Returned(i) == calls[i].result.raised = ""

\* C1: with a valid configuration every call returns the voltage of one of
\* the 2^bit_rate levels, min_range + k * step, and that voltage lies in
\* [min_range, max_range].
C1_ResultOnGridInRange ==
    \A i \in DOMAIN calls :
        ValidConfig =>
            /\ Returned(i)
            /\ \E k \in 0 .. Levels - 1 : calls[i].result.value = Level(k)
            /\ InRange(calls[i].result.value)

\* C2: with a valid configuration and a voltage inside the range, no level
\* is strictly closer to the voltage than the returned one; and max_range=10,
\* min_range=-10, bit_rate=1, voltage 5 returns 10.
C2_NearestLevel ==
    /\ \A i \in DOMAIN calls :
        (ValidConfig /\ InRange(calls[i].analog_voltage)) =>
            /\ Returned(i)
            /\ \A k \in 0 .. Levels - 1 :
                   RLe(Distance(calls[i].result.value, calls[i].analog_voltage),
                       Distance(Level(k), calls[i].analog_voltage))
    /\ \A i \in DOMAIN calls :
        (/\ args = [max_range |-> F(10, 1), min_range |-> F(-10, 1), bit_rate |-> 1]
         /\ calls[i].analog_voltage = F(5, 1)) => calls[i].result.value = F(10, 1)

\* C3: quantizing a returned voltage again returns the same voltage.
C3_Idempotent ==
    \A i, j \in DOMAIN calls :
        (ValidConfig /\ Returned(i) /\ calls[j].analog_voltage = calls[i].result.value)
            => (Returned(j) /\ calls[j].result.value = calls[i].result.value)

\* C4: with a valid configuration a larger voltage never returns a smaller
\* quantized voltage, inside or outside the range.
C4_Monotone ==
    \A i, j \in DOMAIN calls :
        (ValidConfig /\ RLe(calls[i].analog_voltage, calls[j].analog_voltage))
            => /\ Returned(i) /\ Returned(j)
               /\ RLe(calls[i].result.value, calls[j].result.value)

\* C5: with a valid configuration min_range returns min_range and max_range
\* returns max_range.
C5_BoundaryFixedPoints ==
    \A i \in DOMAIN calls :
        (/\ ValidConfig
         /\ calls[i].analog_voltage \in {args.min_range, args.max_range})
            => calls[i].result = Return(calls[i].analog_voltage)

\* C6: with a valid configuration a voltage above max_range returns what
\* max_range returns and a voltage below min_range what min_range returns.
C6_Clamping ==
    \A i, j \in DOMAIN calls :
        ValidConfig =>
            /\ (/\ RLt(args.max_range, calls[i].analog_voltage)
                /\ calls[j].analog_voltage = args.max_range)
                   => (Returned(i) /\ calls[i].result = calls[j].result)
            /\ (/\ RLt(calls[i].analog_voltage, args.min_range)
                /\ calls[j].analog_voltage = args.min_range)
                   => (Returned(i) /\ calls[i].result = calls[j].result)

LevelGrid ==
    quantization_levels(args.max_range, args.min_range, plot_bit_rate(args.bit_rate))

\* C18: with a valid configuration the levels drawn are 2^bit_rate voltages,
\* each larger than the one before, the first min_range and the last
\* max_range, and every voltage a call returns is one of them.
C18_LevelGrid ==
    ValidConfig =>
        /\ Len(LevelGrid) = 2 ^ args.bit_rate
        /\ \A k \in 1 .. Len(LevelGrid) - 1 : RLt(LevelGrid[k], LevelGrid[k + 1])
        /\ LevelGrid[1] = args.min_range
        /\ LevelGrid[Len(LevelGrid)] = args.max_range
        /\ \A i \in DOMAIN calls :
               Returned(i) =>
                   \E k \in DOMAIN LevelGrid : LevelGrid[k] = calls[i].result.value

\* normalized_voltage * (levels - 1) of the voltage v, not rounded.
ExactScaled(v) ==
    RMul(RDiv(RSub(v, args.min_range), RSub(args.max_range, args.min_range)),
         FromInt(Levels - 1))
\* The even one of the indexes k and k + 1.
EvenOf(k) == IF k % 2 = 0 THEN k ELSE k + 1

AllReadable == \A f \in DOMAIN field_vars : Readable(field_vars[f])
MaxRange == field_vars["Maximum Range"]
MinRange == field_vars["Minimum Range"]
BitRate == field_vars["Bit Rate"].num
ShownError(title, detail) ==
    messagebox = <<[kind |-> "showerror", title |-> title, detail |-> detail]>>

\* The handlers of a change of a field.
Changes == {"edit", "slide"}

\* The quantized waves on the axes are those of compute_quantized_value with
\* bit_rate b: as long as the sine waves, element by element.
WavesQuantizedWith(b) ==
    \A k \in DOMAIN ax.quantized_signal :
        /\ k \in DOMAIN ax.analog_signal
        /\ Len(ax.quantized_signal[k]) = Len(ax.analog_signal[k])
        /\ \A i \in DOMAIN ax.analog_signal[k] :
               compute_quantized_value(MaxRange, MinRange, b, ax.analog_signal[k][i])
                   = Return(ax.quantized_signal[k][i])

DirectCallRaisesIffRangeValid ==
    \A mx \in RangeValues, mn \in RangeValues, v \in Voltages :
        \A b \in {b \in BitRates : b <= 0} :
            IF RLt(mn, mx)
            THEN compute_quantized_value(mx, mn, b, v)
                     = Raise("Bit Rate must be a positive integer.")
            ELSE compute_quantized_value(mx, mn, b, v) = Return(mn)

C10_ComputeRejectsRange ==
    (/\ event = "_quantize" /\ AllReadable
     /\ BitRate >= 1 /\ RLe(MaxRange, MinRange)) =>
        /\ ShownError("Input Error",
                      "Maximum Range must be greater than Minimum Range.")
        /\ output_value_text = OutputNA
        /\ last_calculated_params = NoParams
        /\ ax.quantized_signal = <<>>
        /\ ax.current_input = <<>>

C10_Witness ==
    /\ event = "_quantize" /\ AllReadable
    /\ BitRate >= 1 /\ RLe(MaxRange, MinRange)
    /\ output_value_text = OutputNA

NothingDrawn ==
    /\ ax.time = <<>>
    /\ ax.analog_signal = <<>>
    /\ ax.quantization_levels = <<>>
    /\ ax.quantized_signal = <<>>
    /\ ax.current_input = <<>>

\* C11 as claimed: a change of a field that leaves max_range <= min_range is redrawn
\* without failing, and the redraw shows a quantized wave whose every
\* element is min_range.
C11_LiveDegenerateWave ==
    (event \in Changes /\ AllReadable /\ RLe(MaxRange, MinRange)) =>
        /\ messagebox = <<>>
        /\ ax.quantized_signal # <<>>
        /\ \A k \in DOMAIN ax.quantized_signal :
               \A i \in DOMAIN ax.quantized_signal[k] :
                   ax.quantized_signal[k][i] = MinRange

\* C11 amended: a change of a field that leaves max_range <= min_range is redrawn
\* without failing (no dialog, the redraw ran), and the redraw draws no wave,
\* no level and no marker: only the message that the range is invalid.
C11_LiveDegenerateMessage ==
    (event \in Changes /\ AllReadable /\ RLe(MaxRange, MinRange)) =>
        /\ messagebox = <<>>
        /\ plot_updates >= 1
        /\ ax.text = "Error: Max Range must be > Min Range"
        /\ NothingDrawn

C11_Witness ==
    /\ event = "edit" /\ AllReadable
    /\ MaxRange = F(5, 1) /\ MinRange = F(5, 1) /\ BitRate = 8
    /\ ax.text = "Error: Max Range must be > Min Range"

AnalogVoltage == field_vars["Analog Voltage"]
ValidFields == AllReadable /\ BitRate >= 1 /\ RLt(MinRange, MaxRange)
\* The voltage brought into [MinRange, MaxRange].
Clamped(v) == IF RLt(v, MinRange) THEN MinRange
              ELSE IF RLt(MaxRange, v) THEN MaxRange ELSE v
ShownWarning ==
    messagebox = <<[kind |-> "showwarning", title |-> "Input Warning",
                    detail |-> "outside the specified range"]>>

LastDrawnWith(max_r, min_r, bit_r) ==
    /\ ax.text = ""
    /\ ax.analog_signal # <<>>
    /\ ax.analog_signal[Len(ax.analog_signal)] = analog_signal(max_r, min_r)
    /\ ax.quantization_levels # <<>>
    /\ ax.quantization_levels[Len(ax.quantization_levels)] =
           [start |-> min_r, stop |-> max_r, num |-> 2 ^ bit_r]
    /\ ax.quantized_signal # <<>>
    /\ ax.quantized_signal[Len(ax.quantized_signal)] =
           quantize_signal(max_r, min_r, bit_r, analog_signal(max_r, min_r), <<>>)

C15_ComputeImmediate ==
    [][event' = "_quantize" =>
          IF ValidFields
          THEN /\ Len(last_calculated_params') = 1
               /\ last_calculated_params'[1].max_range = MaxRange
               /\ last_calculated_params'[1].min_range = MinRange
               /\ last_calculated_params'[1].bit_rate = BitRate
               /\ last_calculated_params'[1].analog_voltage = AnalogVoltage
               /\ output_value_text' = OutputValue(
                      compute_quantized_value(MaxRange, MinRange, BitRate,
                                              AnalogVoltage).value)
               /\ \A k \in DOMAIN messagebox' : messagebox'[k].kind # "showerror"
          ELSE /\ last_calculated_params' = NoParams
               /\ output_value_text' \in {OutputNA, OutputError}
               /\ messagebox' # <<>>]_vars

C15_Witness ==
    /\ event = "_quantize"
    /\ last_calculated_params =
           Params(F(10, 1), F(-10, 1), 8, F(5, 1))
    /\ output_value_text = OutputValue(
           compute_quantized_value(F(10, 1), F(-10, 1), 8, F(5, 1)).value)

\* C16: a change of a field, with the redraws it runs, leaves the stored
\* values of the last _quantize and the output label as they were.
C16_SnapshotHeldAcrossEdits ==
    [][event' \in Changes =>
          /\ last_calculated_params' = last_calculated_params
          /\ output_value_text' = output_value_text]_vars

C16_Witness ==
    /\ event = "edit"
    /\ last_calculated_params # NoParams
    /\ output_value_text.text = "V"
    /\ AllReadable
    /\ last_calculated_params[1].max_range # MaxRange
    /\ last_calculated_params[1].bit_rate # BitRate

\* The time of one turn, in the unit of the time points.
Turn == FromInt(2)

Written(field, text) == [field_vars EXCEPT ![field] = text]
Writable(field) == Texts(field) \cup SlideValues(field)

\* C19 as claimed: when the user changes a field, the fields afterwards are
\* the fields before with the text typed: the redraw wrote none of them.
C19_RedrawWritesNothing ==
    [][event' \in Changes =>
          \E i \in DOMAIN Fields : \E text \in Writable(Fields[i]) :
              field_vars' = Written(Fields[i], text)]_vars

\* C19 amended: the redraw never writes Maximum Range, Minimum Range or Bit
\* Rate; it writes Analog Voltage, and only when every field is readable,
\* max_range > min_range and the voltage lies outside the range.
C19_RedrawWritesVoltageOnly ==
    [][event' \in Changes =>
          \E i \in DOMAIN Fields : \E text \in Writable(Fields[i]) :
              LET written == Written(Fields[i], text)
              IN  /\ \A f \in {"Maximum Range", "Minimum Range", "Bit Rate"} :
                         field_vars'[f] = written[f]
                  /\ field_vars'["Analog Voltage"] # written["Analog Voltage"] =>
                         /\ \A f \in DOMAIN written : Readable(written[f])
                         /\ RLt(written["Minimum Range"], written["Maximum Range"])
                         /\ \/ RLt(written["Analog Voltage"], written["Minimum Range"])
                            \/ RLt(written["Maximum Range"], written["Analog Voltage"])]_vars

C19_Witness ==
    /\ event = "edit" /\ AllReadable /\ plot_updates = 2
    /\ MaxRange = F(5, 1) /\ AnalogVoltage = F(5, 1) /\ MinRange = F(-10, 1)
    /\ BitRate = 0

\* C20: after any handler, readable fields with max_range > min_range hold
\* a voltage inside the range; and when the user changes a field and leaves
\* such fields, the voltage is min_range if the change left it below the
\* range, max_range if above, and what the change left otherwise.
C20_VoltageSnappedIntoRange ==
    [][/\ (AllReadable' /\ RLt(MinRange', MaxRange')) =>
              (RLe(MinRange', AnalogVoltage') /\ RLe(AnalogVoltage', MaxRange'))
       /\ (event' \in Changes /\ AllReadable' /\ RLt(MinRange', MaxRange')) =>
              \E i \in DOMAIN Fields : \E text \in Writable(Fields[i]) :
                  LET written == Written(Fields[i], text)
                      left == written["Analog Voltage"]
                  IN  field_vars' =
                          [written EXCEPT !["Analog Voltage"] =
                              IF RLt(left, MinRange') THEN MinRange'
                              ELSE IF RLt(MaxRange', left) THEN MaxRange'
                              ELSE left]]_vars

C20_Witness ==
    /\ event = "edit" /\ AllReadable /\ plot_updates = 2
    /\ MinRange = F(5, 1) /\ AnalogVoltage = F(5, 1) /\ MaxRange = F(10, 1)

\* C21: in every state the application reaches, fields that pass the checks
\* of _quantize (all readable, bit rate >= 1, max_range > min_range) hold a
\* voltage inside [min_range, max_range], so that no _quantize shows the
\* out-of-range warning.
C21_WarningUnreachable ==
    /\ ValidFields => (RLe(MinRange, AnalogVoltage) /\ RLe(AnalogVoltage, MaxRange))
    /\ event = "_quantize" => ~ShownWarning

\* A _quantize that passed its checks on a voltage at min_range, where the
\* redraw puts a voltage typed below the range: no dialog is shown.
C21_Witness ==
    /\ event = "_quantize" /\ messagebox = <<>>
    /\ last_calculated_params # NoParams
    /\ output_value_text.text = "V"
    /\ last_calculated_params[1].analog_voltage = F(-10, 1)
    /\ last_calculated_params[1].min_range = F(-10, 1)

\* C22: the runs of _update_quantization_plot in a handler are those of
\* its writes and calls (one for an edit, two for a slider, one for
\* _quantize and for __init__, five for _clear_inputs) and at most one more,
\* the run nested in the write that snaps the voltage: that run writes
\* nothing, so no run is nested in it.
C22_NestingBounded ==
    /\ event = "__init__" => plot_updates = 1
    /\ event = "edit" => plot_updates \in 1 .. 2
    /\ event = "slide" => plot_updates \in 2 .. 3
    /\ event = "_quantize" => plot_updates = 1
    /\ event = "_clear_inputs" => plot_updates \in 5 .. 6

\* An edit of the voltage above the range: the redraw snapped it to
\* max_range and the nested redraw ran once.
C22_Witness ==
    /\ event = "edit" /\ plot_updates = 2 /\ AllReadable
    /\ AnalogVoltage = MaxRange /\ MaxRange = F(10, 1) /\ MinRange = F(-10, 1)

\* C24: after any handler the values of a _quantize are held exactly when
\* the output label shows a quantized voltage (neither N/A nor Error); the
\* values held have max_range > min_range and bit_rate >= 1, and the label
\* shows what compute_quantized_value returns for them, to four decimals;
\* and a _quantize that showed an error holds no values.
C24_SnapshotIffNumericOutput ==
    /\ last_calculated_params # NoParams <=> output_value_text.text = "V"
    /\ last_calculated_params # NoParams =>
           LET held == last_calculated_params[1]
               quantized == compute_quantized_value(
                   held.max_range, held.min_range, held.bit_rate,
                   held.analog_voltage)
           IN  /\ RLt(held.min_range, held.max_range)
               /\ held.bit_rate >= 1
               /\ quantized.raised = ""
               /\ output_value_text.value = Format4(quantized.value)
    /\ (event = "_quantize" /\ messagebox # <<>>
            /\ messagebox[1].kind = "showerror") =>
           (last_calculated_params = NoParams /\ output_value_text.text # "V")

\* The values of a _quantize with bit rate 1 and min_range 5 are held and
\* shown after the user moved a slider.
C24_Witness ==
    /\ event = "slide"
    /\ last_calculated_params # NoParams
    /\ output_value_text.text = "V"
    /\ last_calculated_params[1].bit_rate = 1
    /\ last_calculated_params[1].min_range = F(5, 1)
    /\ MinRange # F(5, 1)

\* C25: when _clear_inputs has returned, whatever the fields held, they hold
\* max_range 10, min_range -10, bit rate 8 and voltage 5, the output label
\* shows N/A and no values of a _quantize are held.
C25_ClearResets ==
    event = "_clear_inputs" =>
        /\ MaxRange = F(10, 1) /\ MinRange = F(-10, 1)
        /\ field_vars["Bit Rate"] = F(8, 1) /\ AnalogVoltage = F(5, 1)
        /\ output_value_text = OutputNA
        /\ last_calculated_params = NoParams

\* A _clear_inputs one of whose writes had the voltage snapped into the
\* range: six redraws ran instead of five.
C25_Witness ==
    /\ event = "_clear_inputs" /\ plot_updates = 6
    /\ AnalogVoltage = F(5, 1)

====
